---- MODULE Spec2Model ----
(***************************************************************************)
(* A model of the reactive property binding of the runtime:                *)
(* PropertyBinding ($bind, $unbind, handleChange, updateTarget,            *)
(* updateSource), the connectable mixin it is decorated with, the source   *)
(* expressions it evaluates and the observers that notify it.              *)
(***************************************************************************)
EXTENDS Integers, Sequences, FiniteSets, TLC

VARIABLES
    binding,   \* the fields of the PropertyBinding instance
    ctx,       \* ctx[s][p]: value of property p of the binding context of scope s
    target,    \* the target property and the target observer's subscription
    pc,        \* position of the running $bind / $unbind ("idle" between calls)
    args,      \* arguments of the running $bind: flags, scope, part
    ret,       \* where the running $unbind returns to
    hist       \* history: the current (or last) top-level call and its events

vars == <<binding, ctx, target, pc, args, ret, hist>>

-----------------------------------------------------------------------------
(* Bounds of the model *)

\* handleChange bumps this.version without limit; calls are cut off here
MaxVersion == 2

-----------------------------------------------------------------------------
(* Bit flags, as the compiled source inlines them *)

none == 0
isBinding == 1
isUnbinding == 2
isBound == 4
isStrictBindingStrategy == 4
updateTargetInstance == 16
updateSourceExpression == 32
fromBind == 4096
persistentBindingFlags == 2080374799
AccessScope == 10082

RECURSIVE BitAnd(_, _)
BitAnd(x, y) ==
    IF x = 0 \/ y = 0 THEN 0
    ELSE (IF x % 2 = 1 /\ y % 2 = 1 THEN 1 ELSE 0) + 2 * BitAnd(x \div 2, y \div 2)

RECURSIVE BitOr(_, _)
BitOr(x, y) ==
    IF x = 0 THEN y
    ELSE IF y = 0 THEN x
    ELSE (IF x % 2 = 1 \/ y % 2 = 1 THEN 1 ELSE 0) + 2 * BitOr(x \div 2, y \div 2)

\* x & ~y
BitClear(x, y) == x - BitAnd(x, y)

-----------------------------------------------------------------------------
(* Binding modes: a mode is the set of its bits *)

oneTime == {"oneTime"}
toView == {"toView"}
fromView == {"fromView"}
twoWay == {"toView", "fromView"}
toViewOrOneTime == toView \cup oneTime

Modes == {oneTime, toView, fromView, twoWay}

-----------------------------------------------------------------------------
(* Scopes, properties, values *)

Undefined == "undefined"
Scopes == {"s1", "s2"}
Props == {"a", "c"}
Values == {"v0", "v1"}
Parts == {Undefined, "p1"}

\* flags a caller passes to $bind: none, or a strategy bit together with an update bit
BindFlags == {none, BitOr(1, updateTargetInstance)}
\* flags a caller or an observer passes to handleChange
ChangeFlags == {none, updateTargetInstance, updateSourceExpression,
                BitOr(updateTargetInstance, updateSourceExpression)}

truthy(v) == v = "v1"

-----------------------------------------------------------------------------
(* Source expressions: an AccessScope `a` and a Conditional `c ? a : 'v0'`, *)
(* whose else-branch is a literal and observes nothing                      *)

Exprs == {"AccessScope", "Conditional"}

kind(expr) == IF expr = "AccessScope" THEN AccessScope ELSE 0

\* sourceExpression.evaluate(flags, scope, locator, part)
evaluate(expr, cx, s) ==
    IF expr = "AccessScope" THEN cx[s]["a"]
    ELSE IF truthy(cx[s]["c"]) THEN cx[s]["a"] ELSE "v0"

\* the observers sourceExpression.connect(flags, scope, binding, part) observes,
\* in the order it observes them
dependencies(expr, cx, s) ==
    IF expr = "AccessScope" THEN << <<s, "a">> >>
    ELSE IF truthy(cx[s]["c"]) THEN << <<s, "c">>, <<s, "a">> >>
    ELSE << <<s, "c">> >>

-----------------------------------------------------------------------------
(* The connectable mixin: observer slots with the version they were used in *)

NoObserver == <<Undefined, Undefined>>

observerSlots(b) == Len(b.slots)

Live(b) == {b.slots[i].obs : i \in 1..Len(b.slots)} \ {NoObserver}

\* the subscriptions left over from a version other than the current one
Stale(b) == {b.slots[i].obs : i \in {j \in 1..Len(b.slots) : b.slots[j].ver # b.version}}
                \ {NoObserver}

addObserver(b, obs) ==
    LET n == Len(b.slots)
        found == {i \in 1..n : b.slots[i].obs = obs}
        empty == {i \in 1..n : b.slots[i].obs = NoObserver}
        i == IF found # {} THEN CHOOSE k \in found : TRUE
             ELSE IF empty # {} THEN CHOOSE k \in empty : \A m \in empty : k <= m
             ELSE n + 1
        slot == [obs |-> obs, ver |-> b.version]
    IN  [b EXCEPT !.slots = IF i = n + 1 THEN Append(b.slots, slot)
                              ELSE [b.slots EXCEPT ![i] = slot]]

unobserve(b, all) ==
    [b EXCEPT !.slots =
        [i \in 1..Len(b.slots) |->
            IF all \/ b.slots[i].ver # b.version
            THEN [b.slots[i] EXCEPT !.obs = NoObserver]
            ELSE b.slots[i]]]

RECURSIVE connectAll(_, _)
connectAll(b, obsSeq) ==
    IF obsSeq = <<>> THEN b
    ELSE connectAll(addObserver(b, Head(obsSeq)), Tail(obsSeq))

\* sourceExpression.connect(flags, scope, binding, part)
connect(b, cx, s) == connectAll(b, dependencies(b.sourceExpression, cx, s))

-----------------------------------------------------------------------------
(* The world a handler runs in, and the events it leaves in the history *)

World == [b |-> binding, cx |-> ctx, tg |-> target, tr |-> hist.trace]

Log(w, name, data) == [w EXCEPT !.tr = Append(w.tr, <<name, data>>)]

Events(tr, name) == {i \in 1..Len(tr) : tr[i][1] = name}

-----------------------------------------------------------------------------
(* PropertyBinding: updateTarget, updateSource, handleChange *)

\* targetObserver.getValue()
getValue(w) == w.tg.value

updateTarget(w, value, flags) ==
    Log([w EXCEPT !.tg.value = value], "updateTarget", value)

differs_always(newValue, previousValue) == TRUE

\* newValue !== previousValue, the check that guards the target write
differs(newValue, previousValue) == newValue # previousValue

reconnects_always(mode) == TRUE

\* (this.mode & oneTime) === 0, the check that guards the reconnect
reconnects(mode) == mode \cap oneTime = {}

\* reconnect without the version bump: nothing is stale, nothing is dropped
reconnect_noBump(w) ==
    LET connected == connect(w.b, w.cx, w.b.scope)
    IN  Log(Log([w EXCEPT !.b = unobserve(connected, FALSE)],
                "connect", w.b.scope), "unobserve", "false")

\* this.version++; sourceExpression.connect(...); this.interceptor.unobserve(false)
reconnect(w) ==
    LET bumped == [w.b EXCEPT !.version = @ + 1]
        connected == connect(bumped, w.cx, w.b.scope)
    IN  Log(Log([w EXCEPT !.b = unobserve(connected, FALSE)],
                "connect", w.b.scope), "unobserve", "false")

\* the value handleChange takes as the new source value: the passed-in one when
\* the only observable is an AccessScope, the re-evaluated expression otherwise
reevaluates(b) == kind(b.sourceExpression) # AccessScope \/ observerSlots(b) > 1

sourceValue(w, newValue) ==
    IF reevaluates(w.b) THEN evaluate(w.b.sourceExpression, w.cx, w.b.scope) ELSE newValue

RECURSIVE handleChange(_, _, _)

\* sourceExpression.assign(flags, scope, locator, value, part): an AccessScope
\* writes the property, whose observer notifies its subscribers; a Conditional
\* is not assignable
assign(w, value) ==
    IF w.b.sourceExpression = "AccessScope"
    THEN LET s == w.b.scope
             w1 == Log([w EXCEPT !.cx[s]["a"] = value], "assign", value)
         IN  IF <<s, "a">> \in Live(w1.b)
             THEN handleChange(w1, value, updateTargetInstance)
             ELSE w1
    ELSE Log(w, "assign", Undefined)

\* updateSource that assigns nothing
updateSource_nothing(w, value, flags) == w

updateSource(w, value, flags) == assign(w, value)

\* handleChange without the check of the isBound bit
handleChange_unchecked(w0, newValue, flags0) ==
    LET w == Log(w0, "handleChange", newValue)
        flags == BitOr(flags0, w.b.persistentFlags)
    IN  IF BitAnd(flags, updateTargetInstance) > 0
        THEN LET previousValue == getValue(w)
                 w0a == Log(w, "getValue", previousValue)
                 nv == sourceValue(w, newValue)
                 w2 == IF differs(nv, previousValue) THEN updateTarget(w0a, nv, flags) ELSE w0a
             IN  IF reconnects(w.b.mode) THEN reconnect(w2) ELSE w2
        ELSE IF BitAnd(flags, updateSourceExpression) > 0
        THEN updateSource(Log(w, "evaluate", w.b.scope), newValue, flags)
        ELSE Log(w, "throw", "15")

handleChange(w0, newValue, flags0) ==
    LET w == Log(w0, "handleChange", newValue) IN
    IF BitAnd(w.b.state, isBound) = 0 THEN w
    ELSE
      LET flags == BitOr(flags0, w.b.persistentFlags) IN
      IF BitAnd(flags, updateTargetInstance) > 0
      THEN LET previousValue == getValue(w)
               w0a == Log(w, "getValue", previousValue)
               w1 == IF reevaluates(w.b) THEN Log(w0a, "evaluate", w.b.scope) ELSE w0a
               nv == sourceValue(w, newValue)
               w2 == IF differs(nv, previousValue) THEN updateTarget(w1, nv, flags) ELSE w1
           IN  IF reconnects(w.b.mode) THEN reconnect(w2) ELSE w2
      ELSE IF BitAnd(flags, updateSourceExpression) > 0
      THEN LET w1 == Log(w, "evaluate", w.b.scope)
           IN  IF differs(newValue, evaluate(w.b.sourceExpression, w.cx, w.b.scope))
               THEN updateSource(w1, newValue, flags)
               ELSE w1
      ELSE Log(w, "throw", "15")

\* the state after a handler that ran as (or inside) the top-level call `op`
Becomes(w, op) ==
    /\ binding' = w.b
    /\ ctx' = w.cx
    /\ target' = w.tg
    /\ hist' = [op |-> op, trace |-> w.tr]

Fresh == [World EXCEPT !.tr = <<>>]

\* a direct call of handleChange (a signal, a delayed or intercepted notification)
handleChange_call(newValue, flags) ==
    /\ pc = "idle"
    /\ binding.version < MaxVersion
    /\ Becomes(handleChange(Fresh, newValue, flags), "handleChange")
    /\ UNCHANGED <<pc, args, ret>>

\* the application changes a source property; its observer notifies the binding
\* when the binding is subscribed to it
sourceChanged(s, p, v) ==
    /\ pc = "idle"
    /\ binding.version < MaxVersion
    /\ v # ctx[s][p]
    /\ LET w == [Fresh EXCEPT !.cx[s][p] = v]
       IN  IF <<s, p>> \in Live(binding)
           THEN Becomes(handleChange(w, v, updateTargetInstance), "source.notify")
           ELSE Becomes(w, "set")
    /\ UNCHANGED <<pc, args, ret>>

\* the target property changes (user input); the target observer notifies the
\* binding when the binding is subscribed to it
targetChanged(v) ==
    /\ pc = "idle"
    /\ binding.version < MaxVersion
    /\ v # target.value
    /\ LET w == [Fresh EXCEPT !.tg.value = v]
       IN  IF target.subscribed
           THEN Becomes(handleChange(w, v, updateSourceExpression), "target.notify")
           ELSE Becomes(w, "set")
    /\ UNCHANGED <<pc, args, ret>>

\* handleChange is called while $bind is running (an observer or a signal
\* fires from inside a call $bind makes), at most once per $bind
handleChange_duringBind(newValue, flags) ==
    /\ pc \in {"bind_setup", "bind_updateTarget", "bind_connect", "bind_subscribe",
               "bind_done"}
    /\ binding.version < MaxVersion
    /\ Events(hist.trace, "handleChange") = {}
    /\ Becomes(handleChange(World, newValue, flags), hist.op)
    /\ UNCHANGED <<pc, args, ret>>

-----------------------------------------------------------------------------
(* PropertyBinding.$bind, one action per stretch of the method *)

NoArgs == [flags |-> none, scope |-> Undefined, part |-> Undefined]

\* the history of a call that starts at "idle", or of the call already running
Started(op) ==
    IF pc = "idle"
    THEN [op |-> op, trace |-> <<>>]
    ELSE hist

Note(h, name, data) == [h EXCEPT !.trace = Append(@, <<name, data>>)]

\* bind_enter with the re-bind going straight on, the old scope never unbound
bind_enter_noUnbind ==
    /\ pc = "idle"
    /\ \E flags \in BindFlags, scope \in Scopes, part \in Parts :
          IF BitAnd(binding.state, isBound) # 0 /\ binding.scope = scope
          THEN /\ pc' = "idle"
               /\ hist' = Note(Started("$bind"), "return", scope)
               /\ UNCHANGED <<args, ret>>
          ELSE /\ pc' = "bind_setup"
               /\ args' = [flags |-> flags, scope |-> scope, part |-> part]
               /\ hist' = Started("$bind")
               /\ UNCHANGED ret
    /\ UNCHANGED <<binding, ctx, target>>

\* bind_enter that unbinds a bound binding whatever the scope
bind_enter_anyScope ==
    /\ pc = "idle"
    /\ \E flags \in BindFlags, scope \in Scopes, part \in Parts :
          /\ pc' = IF BitAnd(binding.state, isBound) # 0 THEN "unbind_enter"
                                                         ELSE "bind_setup"
          /\ ret' = IF BitAnd(binding.state, isBound) # 0 THEN "bind_setup" ELSE ret
          /\ args' = [flags |-> flags, scope |-> scope, part |-> part]
          /\ hist' = Started("$bind")
    /\ UNCHANGED <<binding, ctx, target>>

\* if (this.$state & isBound) { if (this.$scope === scope) return;
\*                              this.interceptor.$unbind(flags | fromBind); }
bind_enter ==
    /\ pc = "idle"
    /\ \E flags \in BindFlags, scope \in Scopes, part \in Parts :
          IF BitAnd(binding.state, isBound) # 0
          THEN IF binding.scope = scope
               THEN /\ pc' = "idle"
                    /\ hist' = Note(Started("$bind"), "return", scope)
                    /\ UNCHANGED <<args, ret>>
               ELSE /\ pc' = "unbind_enter"
                    /\ ret' = "bind_setup"
                    /\ args' = [flags |-> flags, scope |-> scope, part |-> part]
                    /\ hist' = Started("$bind")
          ELSE /\ pc' = "bind_setup"
               /\ args' = [flags |-> flags, scope |-> scope, part |-> part]
               /\ hist' = Started("$bind")
               /\ UNCHANGED ret
    /\ UNCHANGED <<binding, ctx, target>>

\* this.$state |= isBinding; flags |= isStrictBindingStrategy;
\* this.persistentFlags = flags & persistentBindingFlags; this.$scope = scope;
\* this.part = part (the modelled expressions have no bind of their own);
\* if (!targetObserver) targetObserver = this.targetObserver =
\*     mode & fromView ? getObserver(...) : getAccessor(...)
bind_setup ==
    /\ pc = "bind_setup"
    /\ binding' = [binding EXCEPT
          !.state = BitOr(@, isBinding),
          !.persistentFlags =
              BitAnd(BitOr(args.flags, isStrictBindingStrategy), persistentBindingFlags),
          !.scope = args.scope,
          !.part = args.part,
          !.targetObserver =
              IF @ # Undefined THEN @
              ELSE IF binding.mode \cap fromView # {} THEN "observer" ELSE "accessor"]
    /\ pc' = "bind_updateTarget"
    /\ UNCHANGED <<ctx, target, args, ret, hist>>

\* if (this.mode & toViewOrOneTime)
\*     this.interceptor.updateTarget(sourceExpression.evaluate(flags, scope, ...), flags)
evaluatesOnBind_toViewOnly(mode) == mode \cap toView # {}

evaluatesOnBind(mode) == mode \cap toViewOrOneTime # {}

bind_updateTarget ==
    /\ pc = "bind_updateTarget"
    /\ IF evaluatesOnBind(binding.mode)
       THEN LET w == Log(World, "evaluate", args.scope)
                v == evaluate(binding.sourceExpression, ctx, args.scope)
            IN  Becomes(updateTarget(w, v, args.flags), hist.op)
       ELSE UNCHANGED <<binding, ctx, target, hist>>
    /\ pc' = "bind_connect"
    /\ UNCHANGED <<args, ret>>

\* if (this.mode & toView) sourceExpression.connect(flags, scope, this.interceptor, part)
connectsOnBind_oneTimeToo(mode) == mode \cap toViewOrOneTime # {}

connectsOnBind(mode) == mode \cap toView # {}

bind_connect ==
    /\ pc = "bind_connect"
    /\ IF connectsOnBind(binding.mode)
       THEN /\ binding' = connect(binding, ctx, args.scope)
            /\ hist' = Note(hist, "connect", args.scope)
       ELSE UNCHANGED <<binding, hist>>
    /\ pc' = "bind_subscribe"
    /\ UNCHANGED <<ctx, target, args, ret>>

\* if (this.mode & fromView) { targetObserver.subscribe(this.interceptor); ... }
subscribesOnBind(mode) == mode \cap fromView # {}

bind_subscribe ==
    /\ pc = "bind_subscribe"
    /\ IF subscribesOnBind(binding.mode)
       THEN /\ target' = [target EXCEPT !.subscribed = TRUE]
            /\ hist' = Note(hist, "subscribe", Undefined)
       ELSE UNCHANGED <<target, hist>>
    /\ pc' = "bind_done"
    /\ UNCHANGED <<binding, ctx, args, ret>>

\* bind_done leaving the isBinding bit set
bind_done_stillBinding ==
    /\ pc = "bind_done"
    /\ binding' = [binding EXCEPT !.state = BitOr(@, isBound)]
    /\ hist' = Note(hist, "bound", args.scope)
    /\ pc' = "idle"
    /\ args' = NoArgs
    /\ UNCHANGED <<ctx, target, ret>>

\* this.$state |= isBound; this.$state &= ~isBinding
bind_done ==
    /\ pc = "bind_done"
    /\ binding' = [binding EXCEPT !.state = BitClear(BitOr(@, isBound), isBinding)]
    /\ hist' = Note(hist, "bound", args.scope)
    /\ pc' = "idle"
    /\ args' = NoArgs
    /\ UNCHANGED <<ctx, target, ret>>

-----------------------------------------------------------------------------
(* PropertyBinding.$unbind *)

\* unbind_enter without the isBound check
unbind_enter_unchecked ==
    /\ pc \in {"idle", "unbind_enter"}
    /\ binding' = [binding EXCEPT !.state = BitOr(@, isUnbinding),
                                  !.persistentFlags = none]
    /\ pc' = "unbind_scope"
    /\ hist' = Note(Started("$unbind"), "$unbind", "begin")
    /\ ret' = IF pc = "idle" THEN "idle" ELSE ret
    /\ UNCHANGED <<ctx, target, args>>

\* if (!(this.$state & isBound)) return;
\* this.$state |= isUnbinding; this.persistentFlags = none
unbind_enter ==
    /\ pc \in {"idle", "unbind_enter"}
    /\ IF BitAnd(binding.state, isBound) = 0
       THEN /\ pc' = IF pc = "idle" THEN "idle" ELSE ret
            /\ hist' = Note(Started("$unbind"), "return", Undefined)
            /\ UNCHANGED binding
       ELSE /\ binding' = [binding EXCEPT !.state = BitOr(@, isUnbinding),
                                          !.persistentFlags = none]
            /\ pc' = "unbind_scope"
            /\ hist' = Note(Started("$unbind"), "$unbind", "begin")
    /\ ret' = IF pc = "idle" THEN "idle" ELSE ret
    /\ UNCHANGED <<ctx, target, args>>

\* unbind_scope keeping the scope
unbind_scope_kept ==
    /\ pc = "unbind_scope"
    /\ IF binding.targetObserver = "observer"
       THEN /\ target' = [target EXCEPT !.subscribed = FALSE]
            /\ hist' = Note(hist, "unsubscribe", Undefined)
       ELSE UNCHANGED <<target, hist>>
    /\ pc' = "unbind_unobserve"
    /\ UNCHANGED <<binding, ctx, args, ret>>

\* this.$scope = void 0 (the modelled expressions have no unbind of their own)
\* if (this.targetObserver.unsubscribe) this.targetObserver.unsubscribe(this.interceptor)
unbind_scope ==
    /\ pc = "unbind_scope"
    /\ binding' = [binding EXCEPT !.scope = Undefined]
    /\ IF binding.targetObserver = "observer"
       THEN /\ target' = [target EXCEPT !.subscribed = FALSE]
            /\ hist' = Note(hist, "unsubscribe", Undefined)
       ELSE UNCHANGED <<target, hist>>
    /\ pc' = "unbind_unobserve"
    /\ UNCHANGED <<ctx, args, ret>>

\* unbind_unobserve releasing only the stale observers
unbind_unobserve_stale ==
    /\ pc = "unbind_unobserve"
    /\ binding' = unobserve(binding, FALSE)
    /\ hist' = Note(hist, "unobserve", "false")
    /\ pc' = "unbind_done"
    /\ UNCHANGED <<ctx, target, args, ret>>

\* this.interceptor.unobserve(true)
unbind_unobserve ==
    /\ pc = "unbind_unobserve"
    /\ binding' = unobserve(binding, TRUE)
    /\ hist' = Note(hist, "unobserve", "true")
    /\ pc' = "unbind_done"
    /\ UNCHANGED <<ctx, target, args, ret>>

\* this.$state &= ~(isBound | isUnbinding)
unbind_done ==
    /\ pc = "unbind_done"
    /\ binding' = [binding EXCEPT !.state = BitClear(@, BitOr(isBound, isUnbinding))]
    /\ hist' = Note(hist, "$unbind", "end")
    /\ pc' = ret
    /\ ret' = "idle"
    /\ UNCHANGED <<ctx, target, args>>

-----------------------------------------------------------------------------
(* The initial state *)

\* the state the constructor leaves, for every mode and source expression
Init ==
    /\ \E mode \in Modes, expr \in Exprs :
          binding = [mode |-> mode, sourceExpression |-> expr,
                     state |-> none, scope |-> Undefined, part |-> Undefined,
                     targetObserver |-> Undefined, persistentFlags |-> none,
                     version |-> 0, slots |-> <<>>]
    /\ ctx \in [Scopes -> [Props -> Values]]
    /\ target \in [value : Values, subscribed : {FALSE}]
    /\ pc = "idle"
    /\ args = NoArgs
    /\ ret = "idle"
    /\ hist = [op |-> "constructor", trace |-> <<>>]



-----------------------------------------------------------------------------
(* Vocabulary of the properties *)

Bound == BitAnd(binding.state, isBound) # 0
Has(bit) == BitAnd(binding.state, bit) # 0
Trace == hist.trace
Happened(name) == Events(Trace, name) # {}
LastEvent == IF Trace = <<>> THEN <<Undefined, Undefined>> ELSE Trace[Len(Trace)]
BindSteps == {"bind_setup", "bind_updateTarget", "bind_connect", "bind_subscribe", "bind_done"}
UnbindSteps == {"unbind_enter", "unbind_scope", "unbind_unobserve", "unbind_done"}
\* what $bind does for the scope it was given
BindEvents == {"evaluate", "updateTarget", "connect", "subscribe", "bound"}
\* the call in progress is a $bind that found the binding bound to another scope
Rebinding == hist.op = "$bind" /\ (ret = "bind_setup" \/ Happened("$unbind"))
Range(f) == {f[i] : i \in DOMAIN f}
\* the last call ran handleChange: directly, from a source observer, from the
\* target observer
Handled == hist.op \in {"handleChange", "source.notify", "target.notify"}

-----------------------------------------------------------------------------
(* C1 *)

\* C1: a $bind that finds the binding bound to another scope runs $unbind to
\* completion first: while that $unbind runs no bind step has happened and
\* isBinding is clear; when the first bind step is about to run (for any $bind)
\* the binding is unbound, holds no source or target subscription and has no
\* scope; every bind event follows the end of the $unbind; and once the
\* re-bind is done the binding is bound to the new scope, with every source
\* subscription on that scope.
C1_RebindUnbindsFirst ==
    /\ (pc \in UnbindSteps /\ ret = "bind_setup") =>
          /\ ~Has(isBinding)
          /\ \A i \in 1..Len(Trace) : Trace[i][1] \notin BindEvents
    /\ pc = "bind_setup" =>
          /\ binding.state = none
          /\ binding.scope = Undefined
          /\ Live(binding) = {}
          /\ ~target.subscribed
    /\ Rebinding =>
          \A i \in 1..Len(Trace) :
             Trace[i][1] \in BindEvents =>
                \E j \in 1..(i - 1) : Trace[j] = <<"$unbind", "end">>
    /\ (Rebinding /\ pc = "idle" /\ LastEvent[1] = "bound") =>
          /\ Bound
          /\ binding.scope = LastEvent[2]
          /\ \A obs \in Live(binding) : obs[1] = binding.scope

\* a two-way binding re-bound to scope s2: the old target subscription was
\* released on the way and the new source subscriptions are in place
C1_Witness ==
    /\ Rebinding /\ pc = "idle" /\ LastEvent = <<"bound", "s2">>
    /\ Happened("unsubscribe") /\ Happened("subscribe")
    /\ Live(binding) # {}

-----------------------------------------------------------------------------
(* C2 *)

\* C2: $unbind on a binding that is not bound changes nothing (no field of the
\* binding, no source property, nothing of the target, no subscription) and
\* calls nothing, it only returns; and every completed $unbind leaves the
\* binding not bound, so a second $unbind is such a no-op.
C2_UnbindIdempotent ==
    [][ /\ (unbind_enter /\ pc = "idle" /\ ~Bound) =>
              /\ UNCHANGED <<binding, ctx, target, pc, args, ret>>
              /\ hist'.trace = << <<"return", Undefined>> >>
        /\ (pc' = "idle" /\ hist'.op = "$unbind") => ~Bound'
      ]_vars

\* a $unbind that returned at once, on a binding that had been bound before
C2_Witness ==
    /\ pc = "idle" /\ hist.op = "$unbind"
    /\ Trace = << <<"return", Undefined>> >>
    /\ binding.targetObserver # Undefined

-----------------------------------------------------------------------------
(* C3 *)

\* C3: when $unbind has completed (called directly, or from a re-bind whose
\* own steps have not started yet), in every mode: $scope is undefined, persistentFlags is 0, isBound and
\* isUnbinding are clear, the binding is not subscribed to its target observer
\* and holds no source observer subscription.
C3_UnbindClears ==
    (LastEvent = <<"$unbind", "end">> /\ pc \in {"idle", "bind_setup"}) =>
        /\ binding.scope = Undefined
        /\ binding.persistentFlags = none
        /\ ~Has(isBound) /\ ~Has(isUnbinding)
        /\ ~target.subscribed
        /\ Live(binding) = {}

\* a two-way binding unbound after it held a target subscription and source
\* subscriptions in two observer slots
C3_Witness ==
    /\ pc = "idle" /\ hist.op = "$unbind" /\ LastEvent = <<"$unbind", "end">>
    /\ binding.mode = twoWay
    /\ Happened("unsubscribe")
    /\ Len(binding.slots) = 2

-----------------------------------------------------------------------------
(* C4 *)

\* C4: $state only moves none -> isBinding -> isBound -> isBound|isUnbinding
\* -> none; isBinding is set only while $bind runs its bind steps, isBound is
\* set only by the last step of $bind, isUnbinding is set only while $unbind
\* runs, isBinding and isUnbinding are never set together, and between calls
\* $state is none or isBound.
C4_StateMachine ==
    [][ /\ \/ binding'.state = binding.state
           \/ <<binding.state, binding'.state>> \in
                 { <<none, isBinding>>, <<isBinding, isBound>>,
                   <<isBound, BitOr(isBound, isUnbinding)>>,
                   <<BitOr(isBound, isUnbinding), none>> }
        /\ Has(isBinding)' => pc' \in BindSteps \ {"bind_setup"}
        /\ Has(isUnbinding)' => pc' \in UnbindSteps \ {"unbind_enter"}
        /\ (~Bound /\ Bound') => (pc = "bind_done" /\ pc' = "idle")
        /\ ~(Has(isBinding)' /\ Has(isUnbinding)')
        /\ pc' = "idle" => binding'.state \in {none, isBound}
      ]_vars

\* a re-bind in the middle of its $unbind: isBound and isUnbinding are set
C4_Witness ==
    /\ pc = "unbind_unobserve" /\ ret = "bind_setup"
    /\ binding.state = BitOr(isBound, isUnbinding)

-----------------------------------------------------------------------------
(* C5 *)

\* C5: when $bind completes, the source expression has been connected (and the
\* binding holds source subscriptions) iff the mode has the to-view bit, and
\* the binding has subscribed to the target observer iff the mode has the
\* from-view bit, whatever the expression, the scope and the flags.
C5_ModeDecidesSubscriptions ==
    (pc = "idle" /\ hist.op = "$bind" /\ LastEvent[1] = "bound") =>
        /\ Happened("connect") <=> "toView" \in binding.mode
        /\ Live(binding) # {} <=> "toView" \in binding.mode
        /\ Happened("subscribe") <=> "fromView" \in binding.mode
        /\ target.subscribed <=> "fromView" \in binding.mode

\* a one-time binding just bound: target written, neither subscription installed
C5_Witness ==
    /\ pc = "idle" /\ hist.op = "$bind" /\ LastEvent[1] = "bound"
    /\ binding.mode = oneTime
    /\ Happened("updateTarget")
    /\ Live(binding) = {} /\ ~target.subscribed

-----------------------------------------------------------------------------
(* C6 *)

\* C6, as stated: every $bind that completes has evaluated the source
\* expression and connected it.
C6_AlwaysEvaluatedAndConnected ==
    (pc = "idle" /\ hist.op = "$bind" /\ LastEvent[1] = "bound") =>
        /\ Happened("evaluate")
        /\ Happened("connect")

\* C6, amended: when $bind is about to mark the binding bound (isBound still
\* clear), the source expression has been evaluated (once, against the new
\* scope, its value written to the target) iff the mode has the to-view or the
\* one-time bit, and has been connected (against the new scope, after the
\* evaluation) iff the mode has the to-view bit; a from-view binding is
\* neither evaluated nor connected by $bind.
C6_EvaluatedAndConnectedByMode ==
    pc = "bind_done" =>
        LET ev == Events(Trace, "evaluate")
            co == Events(Trace, "connect")
        IN  /\ ~Bound
            /\ ev # {} <=> binding.mode \cap {"toView", "oneTime"} # {}
            /\ co # {} <=> "toView" \in binding.mode
            /\ Cardinality(ev) <= 1 /\ Cardinality(co) <= 1
            /\ \A i \in ev : /\ Trace[i][2] = args.scope
                             /\ i < Len(Trace)
                             /\ Trace[i + 1] =
                                  <<"updateTarget",
                                    evaluate(binding.sourceExpression, ctx, args.scope)>>
            /\ \A j \in co : /\ Trace[j][2] = args.scope
                             /\ \A i \in ev : i < j
                             /\ Live(binding) =
                                  Range(dependencies(binding.sourceExpression, ctx, args.scope))

\* a to-view binding of the conditional expression about to be marked bound,
\* evaluated and connected to both c and a of the new scope
C6_Witness ==
    /\ pc = "bind_done" /\ binding.mode = toView
    /\ binding.sourceExpression = "Conditional"
    /\ Happened("evaluate") /\ Happened("connect")
    /\ Cardinality(Live(binding)) = 2

-----------------------------------------------------------------------------
(* C7 *)

\* the value passed to the handleChange that made event i of the trace
Passed(i) ==
    LET calls == {k \in Events(Trace, "handleChange") : k < i}
    IN  Trace[CHOOSE k \in calls : \A m \in calls : m <= k][2]

\* the events of the handleChange that made event i, after event i
After(i) ==
    {k \in (i + 1)..Len(Trace) :
        \A m \in Events(Trace, "handleChange") : ~(i < m /\ m < k)}

-----------------------------------------------------------------------------
(* C8 *)

-----------------------------------------------------------------------------
(* C9 *)

\* C9: between calls, $scope is defined iff the binding is bound, and every
\* source subscription the binding holds is on an observer of that scope.
C9_OneActiveScope ==
    pc = "idle" =>
        /\ binding.scope # Undefined <=> Bound
        /\ \A obs \in Live(binding) : obs[1] = binding.scope

\* bound to s2 after a re-bind from s1, with source subscriptions
C9_Witness ==
    /\ pc = "idle" /\ Rebinding /\ Bound
    /\ binding.scope = "s2"
    /\ Happened("unobserve")
    /\ Live(binding) # {}

-----------------------------------------------------------------------------
(* C10 *)

-----------------------------------------------------------------------------
(* C21 *)

\* the step is a call of handleChange made while no call is running, or made
\* from inside a running $bind
HandleChangeStep ==
    /\ pc' = pc
    /\ \/ pc = "idle" /\ hist'.op = "handleChange"
       \/ pc \in BindSteps

\* the events the call of the step added to the history
Added ==
    IF pc = "idle" THEN hist'.trace
    ELSE SubSeq(hist'.trace, Len(hist.trace) + 1, Len(hist'.trace))

\* C21: handleChange on a binding whose isBound bit is clear (never bound,
\* inside a running $bind, after $unbind) returns at once: no evaluation, no
\* target write, no assignment, no reconnect, no throw, and the binding, the
\* scopes and the target are as before
C21_UnboundHandleChangeDoesNothing ==
    [][(HandleChangeStep /\ ~Bound) =>
          /\ UNCHANGED <<binding, ctx, target>>
          /\ Len(Added) = 1
          /\ Added[1][1] = "handleChange"]_vars

\* handleChange was called inside a $bind that has subscribed and is about
\* to set the isBound bit
C21_Witness ==
    /\ pc = "bind_done" /\ hist.op = "$bind"
    /\ ~Bound /\ Has(isBinding)
    /\ LastEvent[1] = "handleChange"
    /\ Live(binding) # {}

-----------------------------------------------------------------------------
(* C22 *)

\* the step is a $bind of a bound binding with the scope it is bound to:
\* either it returns, or it goes on with that scope as its argument
SameScopeBindStep ==
    /\ pc = "idle" /\ Bound
    /\ hist'.op = "$bind"
    /\ \/ pc' = "idle"
       \/ pc' # "idle" /\ args'.scope = binding.scope

\* C22: $bind of a binding bound to the same scope does nothing: no $unbind,
\* no evaluation, no target write, no subscription; state, scope,
\* persistentFlags and part stay, whatever the flags and the part passed
C22_SameScopeBindIsNoOp ==
    [][SameScopeBindStep =>
          /\ pc' = "idle"
          /\ UNCHANGED <<binding, ctx, target>>
          /\ hist'.trace = << <<"return", binding.scope>> >>]_vars

\* a binding bound with a part and with flags has been bound again to its scope
C22_Witness ==
    /\ pc = "idle" /\ hist.op = "$bind" /\ Bound
    /\ Trace = << <<"return", binding.scope>> >>
    /\ binding.part = "p1"
    /\ binding.persistentFlags # isStrictBindingStrategy
    /\ Live(binding) # {}

-----------------------------------------------------------------------------
(* C23 *)

\* the step is a call of handleChange on a bound binding in the from-view
\* direction: the target observer's notification, or a direct call that went
\* into the updateSourceExpression branch
FromViewStep ==
    /\ pc = "idle" /\ pc' = "idle" /\ Bound
    /\ \/ hist'.op = "target.notify"
       \/ /\ hist'.op = "handleChange"
          /\ Len(hist'.trace) >= 2
          /\ hist'.trace[2][1] = "evaluate"

\* the events of the call itself: those before the handleChange that the
\* assigned property's observer calls in turn
OwnEvents(tr) ==
    LET later == Events(tr, "handleChange") \ {1}
        end == IF later = {} THEN Len(tr)
               ELSE (CHOOSE k \in later : \A j \in later : k <= j) - 1
    IN  {tr[k][1] : k \in 1..end}

\* C23: in the from-view direction the source is assigned iff the new value
\* differs from the value the source expression has; the branch itself
\* writes no target and reconnects nothing
C23_FromViewAssignsIffChanged ==
    [][FromViewStep =>
          LET newValue == hist'.trace[1][2]
              current == evaluate(binding.sourceExpression, ctx, binding.scope)
              own == OwnEvents(hist'.trace)
          IN  /\ "assign" \in own <=> newValue # current
              /\ own \cap {"updateTarget", "getValue", "connect", "unobserve", "throw"} = {}
              /\ "assign" \notin own => UNCHANGED <<binding, ctx>>]_vars

\* the target observer of a from-view binding has notified a value the
\* source did not have, and the source was assigned
C23_Witness ==
    /\ pc = "idle" /\ hist.op = "target.notify" /\ Bound
    /\ binding.mode = fromView
    /\ binding.sourceExpression = "AccessScope"
    /\ Happened("assign")
    /\ ctx[binding.scope]["a"] = target.value

-----------------------------------------------------------------------------
(***************************************************************************)
(* TranslationBinding (i18n): $bind, $unbind, handleChange,                *)
(* handleLocaleChange, updateTranslations.  The key expression is an       *)
(* AccessScope `key`, the optional parameters expression an AccessScope    *)
(* `params`; a translation carries the locale, the key and the parameters  *)
(* it was made from.                                                       *)
(***************************************************************************)

VARIABLES
    tb,       \* the fields of the TranslationBinding instance
    tbEnv,    \* the scopes' properties, the active locale and the target element
    tbHist    \* history: the last call, its events, whether $unbind was the
              \* last of $bind and $unbind after (unbound) and before the call

tbVars == <<tb, tbEnv, tbHist>>

Locales == {"en", "de"}
TbProps == {"key", "params"}
NoTranslation == <<Undefined, Undefined, Undefined>>

\* this.i18n.evaluate(keyExpression, translationParameters): one result; the
\* key "v1" addresses the title attribute ("[title]key"), the key "v0" the content
translate(e, key, params) == <<e.locale, key, params>>
attributeOf(key) == IF key = "v1" THEN "title" ELSE "textContent"

TbWorld == [b |-> tb, e |-> tbEnv, tr |-> <<>>]

\* unobserveTargets(flags): unbind every target observer, clear the set
unobserveTargets(w) ==
    Log([w EXCEPT !.b.targetObservers = {}], "unobserveTargets", Undefined)

\* updateTranslations(flags)
updateTranslations(w0) ==
    LET w == Log(w0, "updateTranslations", Undefined)
        value == translate(w.e, w.b.keyExpression, w.b.translationParameters)
        attribute == attributeOf(w.b.keyExpression)
        w1 == unobserveTargets(w)
    IN  IF attribute = "textContent"
        THEN Log([w1 EXCEPT !.e.target.textContent = value], "updateContent", Undefined)
        ELSE Log([w1 EXCEPT !.e.target[attribute] = value,
                            !.b.targetObservers = @ \cup {attribute}],
                 "updateAttribute", attribute)

\* expr.connect(flags, scope, this, part): the binding observes the property
tbConnect(w, s, p) ==
    Log([w EXCEPT !.b = addObserver(w.b, <<s, p>>)], "connect", s)

\* $bind(flags, scope, part)
tb_bind_op(w0, scope) ==
    LET wa == IF BitAnd(w0.b.state, isBound) # 0
              THEN Log(w0, "bound-before", w0.b.scope) ELSE w0
        w1 == Log([wa EXCEPT !.b.scope = scope,
                             !.b.keyExpression = wa.e.ctx[scope]["key"]],
                  "evaluate", scope)
        w2 == IF w1.b.hasParams
              THEN tbConnect([w1 EXCEPT !.b.translationParameters =
                                           w1.e.ctx[scope]["params"]],
                             scope, "params")
              ELSE w1
        w3 == tbConnect(w2, scope, "key")
        w4 == updateTranslations(w3)
    IN  [w4 EXCEPT !.b.state = isBound]

\* $unbind(flags)
tb_unbind_op(w) ==
    IF BitAnd(w.b.state, isBound) = 0 THEN Log(w, "return", Undefined)
    ELSE LET w1 == [w EXCEPT !.b.state = BitOr(@, isUnbinding)]
             w2 == unobserveTargets(w1)
             w3 == [w2 EXCEPT !.b.scope = Undefined]
         IN  Log([w3 EXCEPT !.b = unobserve(w3.b, TRUE)], "unobserve", "true")

\* handleChange(newValue, _previousValue, flags); secondary is the
\* secondaryExpression bit of flags
tb_handleChange_op(w0, newValue, secondary) ==
    LET w == Log(w0, "handleChange", newValue)
        w1 == IF secondary
              THEN [w EXCEPT !.b.translationParameters = w.e.ctx[w.b.scope]["params"]]
              ELSE [w EXCEPT !.b.keyExpression = newValue]
    IN  updateTranslations(w1)

\* handleLocaleChange()
tb_handleLocaleChange_op(w) == updateTranslations(w)

TbBecomes(w, op, unbound) ==
    /\ tb' = w.b
    /\ tbEnv' = w.e
    /\ tbHist' = [op |-> op, trace |-> w.tr, unbound |-> unbound,
                  before |-> tbHist.unbound]

tb_bind(scope) ==
    TbBecomes(tb_bind_op(TbWorld, scope), "$bind", FALSE)

tb_unbind ==
    TbBecomes(tb_unbind_op(TbWorld), "$unbind", TRUE)

\* a property of a scope changes; its observer notifies the binding when the
\* binding is subscribed to it (the observer of `params` with the
\* secondaryExpression flag)
tb_sourceChanged(s, p, v) ==
    /\ v # tbEnv.ctx[s][p]
    /\ LET w == [TbWorld EXCEPT !.e.ctx[s][p] = v]
       IN  IF <<s, p>> \in Live(tb)
           THEN TbBecomes(tb_handleChange_op(w, v, p = "params"),
                          "source.notify", tbHist.unbound)
           ELSE TbBecomes(w, "set", tbHist.unbound)

\* the active locale changes; the event aggregator publishes
\* 'i18n:locale:changed' to the handler the constructor subscribed
tb_localeChanged(l) ==
    /\ l # tbEnv.locale
    /\ tb.keyExpression # Undefined
    /\ TbBecomes(tb_handleLocaleChange_op([TbWorld EXCEPT !.e.locale = l]),
                 "locale.changed", tbHist.unbound)

\* the state the constructor leaves, with or without a parameters expression
TbInit ==
    /\ \E hasParams \in BOOLEAN :
          tb = [state |-> none, scope |-> Undefined, hasParams |-> hasParams,
                keyExpression |-> Undefined, translationParameters |-> Undefined,
                targetObservers |-> {}, version |-> 0, slots |-> <<>>]
    /\ \E cx \in [Scopes -> [TbProps -> Values]], l \in Locales :
          tbEnv = [ctx |-> cx, locale |-> l,
                   target |-> [textContent |-> NoTranslation, title |-> NoTranslation]]
    /\ tbHist = [op |-> "constructor", trace |-> <<>>, unbound |-> FALSE,
                 before |-> FALSE]


\* the binding, unused
TbOff == tb = <<>> /\ tbEnv = <<>> /\ tbHist = <<>>

-----------------------------------------------------------------------------
(* TranslationBinding: properties *)

TbBound == BitAnd(tb.state, isBound) # 0
TbHappened(name) == Events(tbHist.trace, name) # {}
TbScopesObserved == {o[1] : o \in Live(tb)}

\* C11: after $unbind the isBound bit is clear, and a $unbind of a binding
\* that is already unbound returns at once: no unobserveTargets, no unobserve
C11_UnbindClearsAndIsIdempotent ==
    tbHist.op = "$unbind" =>
        /\ ~TbBound
        /\ tbHist.before =>
              /\ ~TbHappened("unobserveTargets")
              /\ ~TbHappened("unobserve")

\* C12: after $bind of a bound binding to another scope the binding is
\* subscribed through the new scope only
C12_RebindLeavesOnlyNewScope ==
    (tbHist.op = "$bind" /\ TbHappened("bound-before")) =>
        TbScopesObserved \subseteq {tb.scope}

\* C13: once $unbind has run, no source change, parameter change or locale
\* change runs updateTranslations or writes the target
C13_NoTranslationAfterUnbind ==
    (tbHist.unbound /\ tbHist.op # "$unbind") =>
        /\ ~TbHappened("updateTranslations")
        /\ ~TbHappened("updateContent")
        /\ ~TbHappened("updateAttribute")

-----------------------------------------------------------------------------
(***************************************************************************)
(* router util: runSequence.  A callback is given by what it does: whether *)
(* it calls abort and whether it returns a promise.  Callback k returns    *)
(* the value <<"value", k>> or the promise <<"promise", k>>, which         *)
(* resolves to <<"value", k>> or is rejected; <<"then", k>> is the new     *)
(* promise nextValue.then(runNext) made on the promise of callback k.      *)
(***************************************************************************)

VARIABLES
    rs        \* one call of runSequence: arguments, closure, result, history

rsVars == <<rs>>

MaxCalls == 3

Void == <<"undefined", 0>>
TypeError == <<"TypeError", 0>>
Pending == <<"pending", 0>>

Callbacks == [aborts : BOOLEAN, promise : BOOLEAN]

\* nextValue instanceof Promise
isPromise_always(v) == TRUE
isPromise(v) == v[1] \in {"promise", "then"}

\* nextCall(abort, prevResult): the callback's return value
Returned(input, k) == IF input[k].promise THEN <<"promise", k>> ELSE <<"value", k>>

\* runNext(prevResult) on the closure c = [calls, aborted, log]; calls holds
\* the positions of the callbacks not yet shifted
RECURSIVE runNext_eager(_, _, _)
runNext_eager(input, c, prevResult) ==
    IF c.aborted THEN [c |-> c, ret |-> prevResult]
    ELSE IF c.calls = <<>> THEN [c |-> c, ret |-> TypeError]
    ELSE LET nextCall == Head(c.calls)
             nextValue == Returned(input, nextCall)
             c1 == [calls |-> Tail(c.calls),
                    aborted |-> input[nextCall].aborts,
                    log |-> Append(c.log, [call |-> nextCall, value |-> prevResult])]
         IN  IF c1.calls = <<>> THEN [c |-> c1, ret |-> nextValue]
             ELSE runNext_eager(input, c1, nextValue)

RECURSIVE runNext(_, _, _)
runNext(input, c, prevResult) ==
    IF c.aborted THEN [c |-> c, ret |-> prevResult]
    ELSE IF c.calls = <<>> THEN [c |-> c, ret |-> TypeError]
    ELSE LET nextCall == Head(c.calls)
             nextValue == Returned(input, nextCall)
             c1 == [calls |-> Tail(c.calls),
                    aborted |-> input[nextCall].aborts,
                    log |-> Append(c.log, [call |-> nextCall, value |-> prevResult])]
         IN  IF c1.calls = <<>> THEN [c |-> c1, ret |-> nextValue]
             ELSE IF isPromise(nextValue)
                  THEN [c |-> c1, ret |-> <<"then", nextCall>>]
                  ELSE runNext(input, c1, nextValue)

\* the promise runNext is waiting for, 0 if none
Awaited(v) == IF v[1] = "then" THEN v[2] ELSE 0

\* runSequence(...calls)
runSequence ==
    /\ rs.pc = "ready"
    /\ LET r == runNext(rs.input,
                        [calls |-> [i \in 1..Len(rs.input) |-> i],
                         aborted |-> FALSE, log |-> <<>>],
                        Void)
       IN  rs' = [rs EXCEPT !.pc = "returned", !.closure = r.c, !.result = r.ret,
                            !.waiting = Awaited(r.ret)]

\* the promise a callback returned resolves: the continuation runNext runs
\* and its return value settles the promise made by then
promiseResolves ==
    /\ rs.waiting # 0
    /\ LET r == runNext(rs.input, rs.closure, <<"value", rs.waiting>>)
       IN  rs' = [rs EXCEPT !.closure = r.c, !.waiting = Awaited(r.ret),
                            !.settled = IF Awaited(r.ret) # 0 THEN Pending ELSE r.ret]

\* the promise a callback returned is rejected: runNext is not called
promiseRejects ==
    /\ rs.waiting # 0
    /\ rs' = [rs EXCEPT !.waiting = 0, !.settled = <<"rejected", rs.waiting>>]

\* before the call, for every list of at most MaxCalls callbacks
RsInit ==
    \E n \in 0..MaxCalls : \E input \in [1..n -> Callbacks] :
        rs = [input |-> input, pc |-> "ready",
              closure |-> [calls |-> <<>>, aborted |-> FALSE, log |-> <<>>],
              result |-> Pending, waiting |-> 0, settled |-> Pending]

\* runSequence, unused
RsOff == rs = <<>>

-----------------------------------------------------------------------------
(* runSequence: properties *)

RsLog == rs.closure.log
RsInvoked == Len(RsLog)
\* no callback before the last returns a promise
RsSynchronous == \A k \in 1..(Len(rs.input) - 1) : ~rs.input[k].promise
\* the callbacks up to and including the first that calls abort
RsDue ==
    LET aborting == {k \in 1..Len(rs.input) : rs.input[k].aborts}
    IN  IF aborting = {} THEN Len(rs.input)
        ELSE CHOOSE k \in aborting : \A j \in aborting : k <= j
\* what the caller of runSequence finally has: the value returned, or what
\* the promise returned came to
RsFinal == IF rs.result[1] = "then" THEN rs.settled ELSE rs.result
\* a value, or what the promise of a callback came to
RsOutcome(v) ==
    IF v[1] = "promise" /\ rs.settled = <<"rejected", v[2]>> THEN rs.settled
    ELSE IF v[1] = "promise" THEN <<"value", v[2]>>
    ELSE v

\* C14: the callbacks run in argument order, each at most once, each given
\* the result of the one before (resolved, if that was a promise), none
\* while the promise of the one before is pending; the overall result is
\* what the last callback invoked returned
C14_InOrderWithPreviousResult ==
    /\ \A i \in 1..RsInvoked :
          /\ RsLog[i].call = i
          /\ RsLog[i].value = IF i = 1 THEN Void ELSE <<"value", i - 1>>
    /\ rs.waiting # 0 => (RsInvoked = rs.waiting /\ rs.input[rs.waiting].promise)
    /\ (rs.pc = "returned" /\ rs.waiting = 0 /\ rs.input # <<>>) =>
          RsOutcome(RsFinal) = RsOutcome(Returned(rs.input, RsInvoked))

\* a call that went through a promise and came to its end
C14_Witness ==
    /\ rs.pc = "returned" /\ rs.waiting = 0
    /\ rs.result[1] = "then"
    /\ RsInvoked = MaxCalls
    /\ rs.settled = <<"value", MaxCalls>>

\* C15 as stated: without a promise before the last callback, every callback
\* has run when runSequence returns and the value returned is the last
\* callback's own
C15_SynchronousRunsAll ==
    (rs.pc = "returned" /\ rs.input # <<>> /\ RsSynchronous) =>
        /\ RsInvoked = Len(rs.input)
        /\ rs.result = Returned(rs.input, Len(rs.input))

\* C15: without a promise before the last callback, the callbacks up to and
\* including the first that calls abort have run when runSequence returns
\* and the value returned is the last of these's own; a new promise is
\* returned only if a callback before the last returned a promise
C15_SynchronousUpToAbort ==
    (rs.pc = "returned" /\ rs.input # <<>>) =>
        /\ RsSynchronous =>
              /\ RsInvoked = RsDue
              /\ rs.result = Returned(rs.input, RsDue)
        /\ rs.result[1] = "then" => ~RsSynchronous

\* a synchronous run ended by abort before the last callback
C15_Witness ==
    /\ rs.pc = "returned" /\ RsSynchronous
    /\ RsInvoked = 2 /\ Len(rs.input) = MaxCalls
    /\ rs.input[2].aborts
    /\ rs.result = <<"value", 2>>

-----------------------------------------------------------------------------
(***************************************************************************)
(* router util: resolveAll.  The result is nothing, one of the promises    *)
(* given, or a new Promise.all over a list of promises.                    *)
(***************************************************************************)

VARIABLES
    ra        \* one call of resolveAll: the argument and the value returned

raVars == <<ra>>

MaxInputs == 3

MaybePromises == {Void, <<"value", 1>>, <<"promise", 1>>, <<"promise", 2>>}

Nothing == [kind |-> "undefined", of |-> <<>>]
Same(p) == [kind |-> "same", of |-> <<p>>]
PromiseAll(ps) == [kind |-> "all", of |-> ps]

\* resolveAll(maybePromises)
resolveAll_allOfThem(maybePromises) ==
    LET promises == SelectSeq(maybePromises, isPromise)
    IN  IF Len(promises) = 0 THEN Nothing
        ELSE PromiseAll(promises)
resolveAll(maybePromises) ==
    LET promises == SelectSeq(maybePromises, isPromise)
    IN  IF Len(promises) = 0 THEN Nothing
        ELSE IF Len(promises) = 1 THEN Same(promises[1])
        ELSE PromiseAll(promises)

resolveAll_call ==
    /\ ra.pc = "ready"
    /\ ra' = [ra EXCEPT !.pc = "returned", !.result = resolveAll(ra.input)]

\* before the call, for every list of at most MaxInputs values
RaInit ==
    \E n \in 0..MaxInputs : \E input \in [1..n -> MaybePromises] :
        ra = [input |-> input, pc |-> "ready", result |-> Nothing]

\* resolveAll, unused
RaOff == ra = <<>>

-----------------------------------------------------------------------------
(* resolveAll: properties *)

\* the places of the promises in the argument
RaPromiseAt == {i \in 1..Len(ra.input) : ra.input[i][1] = "promise"}
\* the place among the promises of the promise at place i of the argument
RaRank(i) == Cardinality({k \in RaPromiseAt : k <= i})

\* C16: nothing without a promise among the inputs, the promise itself when
\* there is one, a Promise.all over the promises in input order when there
\* are more; the other inputs play no part
C16_ResolveAllByPromiseCount ==
    ra.pc = "returned" =>
        /\ ra.result.kind = CASE Cardinality(RaPromiseAt) = 0 -> "undefined"
                              [] Cardinality(RaPromiseAt) = 1 -> "same"
                              [] OTHER -> "all"
        /\ Len(ra.result.of) = Cardinality(RaPromiseAt)
        /\ \A i \in RaPromiseAt : ra.result.of[RaRank(i)] = ra.input[i]

\* two different promises around a value that is no promise
C16_Witness ==
    /\ ra.pc = "returned"
    /\ ra.input = << <<"promise", 2>>, <<"value", 1>>, <<"promise", 1>> >>
    /\ ra.result = PromiseAll(<< <<"promise", 2>>, <<"promise", 1>> >>)

-----------------------------------------------------------------------------
(***************************************************************************)
(* kernel: DefaultLogger.  The loggers made from one root by scopeTo share *)
(* the configuration and the sinks; each has its own closure with the      *)
(* loop index i of emit.  A sink either only takes the event, or also logs *)
(* on the logger the event came from when the event is not one it caused.  *)
(***************************************************************************)

VARIABLES
    lg,       \* config.level, the sinks, the loggers
    lgHist    \* history: the last call, the events it created, the
              \* deliveries to sinks, the calls of the message function

lgVars == <<lg, lgHist>>

MaxLoggers == 3
NumSinks == 2

LogLevel_trace == 0
LogLevel_debug == 1
LogLevel_info == 2
LogLevel_warn == 3
LogLevel_error == 4
LogLevel_fatal == 5
LogLevel_none == 6
LogLevels == LogLevel_trace..LogLevel_none
\* the levels of the methods trace, debug, info, warn, error, fatal
MethodLevels == LogLevel_trace..LogLevel_fatal

Null == 0
ScopeNames == {"x", "y"}
SinkKinds == {"plain", "relog"}
\* the level a relogging sink logs with
RelogLevel == LogLevel_warn

\* new DefaultLogger(config, factory, sinks, scope, parent) as logger self
DefaultLogger_rootIsParent(loggers, self, scope, parent) ==
    IF parent = Null
    THEN [root |-> self, parent |-> self, scope |-> scope, i |-> 0]
    ELSE [root |-> parent, parent |-> parent, scope |-> scope, i |-> 0]
DefaultLogger(loggers, self, scope, parent) ==
    IF parent = Null
    THEN [root |-> self, parent |-> self, scope |-> scope, i |-> 0]
    ELSE [root |-> loggers[parent].root, parent |-> parent, scope |-> scope, i |-> 0]

\* config.level <= LogLevel.<method>
passes_above(configLevel, level) == configLevel < level
passes(configLevel, level) == configLevel <= level

\* typeof msgOrGetMsg === 'function' ? msgOrGetMsg() : msgOrGetMsg
buildMessage(w, isFunction) ==
    IF isFunction THEN [w EXCEPT !.h.getMessage = @ + 1] ELSE w

RECURSIVE logMethod(_, _, _, _, _)
RECURSIVE emit(_, _, _, _, _)
RECURSIVE sinkLoop(_, _, _)

\* for (...; i < sinksLen; ++i) { sinks[i].emit(event); } from the current i
sinkLoop(w, l, event) ==
    LET i == w.g.loggers[l].i
    IN  IF i < NumSinks
        THEN LET w1 == [w EXCEPT !.h.deliveries = Append(@, [sink |-> i, event |-> event])]
                 w2 == IF w.g.sinks[i] = "relog" /\ ~w.h.events[event].nested
                       THEN logMethod(w1, l, RelogLevel, FALSE, TRUE)
                       ELSE w1
                 w3 == [w2 EXCEPT !.g.loggers[l].i = @ + 1]
             IN  sinkLoop(w3, l, event)
        ELSE w

\* emit(level, msgOrGetMsg, optionalParams) of logger l
emit(w, l, level, isFunction, nested) ==
    LET w1 == buildMessage(w, isFunction)
        event == Len(w1.h.events) + 1
        w2 == [w1 EXCEPT !.h.events = Append(@, [logger |-> l, level |-> level,
                                                    nested |-> nested]),
                         !.g.loggers[l].i = 0]
    IN  sinkLoop(w2, l, event)

\* trace / debug / info / warn / error / fatal of logger l
logMethod_messageFirst(w, l, level, isFunction, nested) ==
    IF passes(w.g.level, level)
    THEN emit(buildMessage(w, isFunction), l, level, isFunction, nested)
    ELSE buildMessage(w, isFunction)
logMethod(w, l, level, isFunction, nested) ==
    IF passes(w.g.level, level) THEN emit(w, l, level, isFunction, nested) ELSE w

LgCall(op, l, level, isFunction) ==
    [op |-> op, logger |-> l, level |-> level, configLevel |-> lg.level,
     isFunction |-> isFunction, name |-> "", scope |-> <<>>,
     events |-> <<>>, deliveries |-> <<>>, getMessage |-> 0]

\* logger l's method for the level is called, with a message or a function
logger_log(l, level, isFunction) ==
    LET w == logMethod([g |-> lg, h |-> LgCall("log", l, level, isFunction)],
                       l, level, isFunction, FALSE)
    IN  lg' = w.g /\ lgHist' = w.h

\* scopeTo(name) of logger l
scopeTo(l, name) ==
    /\ Len(lg.loggers) < MaxLoggers
    /\ lg' = [lg EXCEPT !.loggers =
                 Append(@, DefaultLogger(lg.loggers, Len(lg.loggers) + 1,
                                         lg.loggers[l].scope \o <<name>>, l))]
    /\ lgHist' = [LgCall("scopeTo", l, LogLevel_none, FALSE)
                    EXCEPT !.name = name, !.scope = lg.loggers[l].scope]

\* config.level is changed at runtime
setLevel(level) ==
    /\ level # lg.level
    /\ lg' = [lg EXCEPT !.level = level]
    /\ lgHist' = [LgCall("config", Null, level, FALSE) EXCEPT !.configLevel = level]

\* the root logger as the container makes it
RootLogger == <<DefaultLogger(<<>>, 1, <<>>, Null)>>
\* the root logger and a logger scoped from it
ScopedLogger == Append(RootLogger, DefaultLogger(RootLogger, 2, <<"x">>, 1))

\* after construction, for every level and every kind of sinks
LgInitWith(loggers) ==
    /\ \E level \in LogLevels, sinks \in [0..(NumSinks - 1) -> SinkKinds] :
          lg = [level |-> level, sinks |-> sinks, loggers |-> loggers]
    /\ lgHist = [op |-> "constructor", logger |-> 1, level |-> LogLevel_none,
                 configLevel |-> lg.level, isFunction |-> FALSE, name |-> "",
                 scope |-> <<>>, events |-> <<>>, deliveries |-> <<>>,
                 getMessage |-> 0]

\* the logger, unused
LgOff == lg = <<>> /\ lgHist = <<>>

-----------------------------------------------------------------------------
(* DefaultLogger: properties *)

LgLogged == lgHist.op = "log"
\* the sinks the event reached, in the order it reached them
LgReached(event) ==
    LET ds == SelectSeq(lgHist.deliveries, LAMBDA d : d.event = event)
    IN  [k \in 1..Len(ds) |-> ds[k].sink]
LgAllSinks == [k \in 1..NumSinks |-> k - 1]
\* the call made an event of its own
LgEmitted == lgHist.events # <<>> /\ ~lgHist.events[1].nested

\* C17: a call of a log method makes an event and reaches the sinks exactly
\* if config.level at the time of the call is at most the method's level;
\* a suppressed call makes no event and reaches no sink
C17_LevelGate ==
    LgLogged =>
        /\ LgEmitted <=> lgHist.configLevel <= lgHist.level
        /\ LgEmitted =>
              /\ lgHist.events[1].level = lgHist.level
              /\ lgHist.events[1].logger = lgHist.logger
              /\ LgReached(1) # <<>>
        /\ ~LgEmitted => (lgHist.events = <<>> /\ lgHist.deliveries = <<>>)

\* a call let through at exactly the configured level
C17_Witness ==
    /\ LgLogged /\ LgEmitted
    /\ lgHist.level = LogLevel_info /\ lgHist.configLevel = LogLevel_info

\* C18: every event that passed the level check is delivered exactly once
\* to every sink, in registration order, also when a sink logs on the same
\* logger from inside its emit
C18_EveryEventToEverySink ==
    LgLogged => \A event \in 1..Len(lgHist.events) : LgReached(event) = LgAllSinks

\* C19: a message function is called exactly once if the event is emitted
\* and never if the call is suppressed
C19_MessageFunctionOnce ==
    (LgLogged /\ lgHist.isFunction) =>
        lgHist.getMessage = IF lgHist.configLevel <= lgHist.level THEN 1 ELSE 0

\* a message function called for an emitted event
C19_Witness ==
    /\ LgLogged /\ lgHist.isFunction
    /\ lgHist.getMessage = 1
    /\ lgHist.level = LogLevel_error

\* C20: root and parent are never null; root is the root logger; on the
\* root logger both are itself; the logger scopeTo made has the logger it
\* was called on as parent and that logger's scope plus the name as scope,
\* and that logger's scope is as it was
C20_ScopeChain ==
    /\ \A k \in 1..Len(lg.loggers) :
          /\ lg.loggers[k].root # Null /\ lg.loggers[k].parent # Null
          /\ lg.loggers[k].root = 1
          /\ lg.loggers[k].parent \in 1..Len(lg.loggers)
          /\ k = 1 => (lg.loggers[k].parent = 1 /\ lg.loggers[k].scope = <<>>)
          /\ k > 1 =>
                /\ lg.loggers[k].parent < k
                /\ Len(lg.loggers[k].scope) = Len(lg.loggers[lg.loggers[k].parent].scope) + 1
                /\ SubSeq(lg.loggers[k].scope, 1, Len(lg.loggers[k].scope) - 1)
                      = lg.loggers[lg.loggers[k].parent].scope
    /\ lgHist.op = "scopeTo" =>
          LET made == lg.loggers[Len(lg.loggers)]
          IN  /\ made.parent = lgHist.logger
              /\ made.scope = Append(lgHist.scope, lgHist.name)
              /\ lg.loggers[lgHist.logger].scope = lgHist.scope

\* a logger scoped from a scoped logger
C20_Witness ==
    /\ lgHist.op = "scopeTo"
    /\ lgHist.logger = 2
    /\ lg.loggers[Len(lg.loggers)].scope = <<"x", "y">>
    /\ lg.loggers[Len(lg.loggers)].root = 1

-----------------------------------------------------------------------------
(***************************************************************************)
(* runtime-html: the Compose custom element.  this.task is the list of the *)
(* steps still to run: LifecycleTask.done is the empty list, a             *)
(* ContinuationTask adds its step behind the task it continues, a step     *)
(* that returns a task that is not done is replaced by the steps of that   *)
(* task, a PromiseTask is a step that can run once its promise has         *)
(* resolved.  A subject is a view (an IController, the view resolved from  *)
(* it being itself), a promise of one, or undefined.  The controller of    *)
(* the element holds its isBoundOrBinding bits from the call of binding    *)
(* until the task returned by unbinding has completed, and its             *)
(* isAttachedOrAttaching bits from attaching until detaching has returned. *)
(***************************************************************************)

VARIABLES
    cp,       \* the Compose instance, its controller's state, the views,
              \* the promises that have resolved
    cpHist    \* history: the subject last requested, the views left active
              \* when the task of unbinding completed, the bind invocations
              \* of the running binding call, breaches of the order of steps,
              \* the view deactivate took down last

cpVars == <<cp, cpHist>>

MaxTodo == 3

Views == {"A", "B"}
Promises == {"PB"}
Subjects == Views \cup Promises \cup {Undefined}

\* subject instanceof Promise
isSubjectPromise(subject) == subject \in Promises

\* resolveView(subject, flags): the view for a subject that is no promise
resolveView(subject) == IF subject \in Views THEN subject ELSE Undefined

\* the subject a promise resolves to
Resolution(promise) == "B"

Step(op, arg, from) == [op |-> op, arg |-> arg, from |-> from]

Active(views) == {v \in Views : views[v].bound \/ views[v].attached}

\* this.currentView.bind(flags, scope): counted when the call comes from
\* binding or a task binding chained
viewBind(c, v, from) ==
    [c EXCEPT !.s.views[v].bound = TRUE,
              !.h.binds[v] = IF from = "binding" /\ @ < 2 THEN @ + 1 ELSE @,
              !.h.overlap = @ \/ Active(c.s.views) \ {v} # {} \/ c.s.views[v].unbinding]

\* this.currentView.attach(flags)
viewAttach(c, v) ==
    [c EXCEPT !.s.views[v].attached = TRUE,
              !.h.overlap = @ \/ Active(c.s.views) \ {v} # {} \/ c.s.views[v].unbinding]

\* view.detach(flags)
viewDetach(c, v) == [c EXCEPT !.s.views[v].attached = FALSE]

\* view.unbind(flags): done at once, or a task that completes later
viewUnbind(c, v, from) ==
    LET c1 == [c EXCEPT !.h.unbindFirst = @ \/ c.s.views[v].attached]
    IN  IF ~c.s.views[v].bound THEN [c |-> c1, rest |-> <<>>]
        ELSE IF c.s.slow
        THEN [c |-> [c1 EXCEPT !.s.views[v].unbinding = TRUE],
              rest |-> <<Step("await", v, from)>>]
        ELSE [c |-> [c1 EXCEPT !.s.views[v].bound = FALSE], rest |-> <<>>]

\* bindView(flags)
bindView(c, from) ==
    IF c.s.currentView # Undefined /\ c.s.ctl # "unbound"
    THEN viewBind(c, c.s.currentView, from)
    ELSE c

\* attachView(flags)
attachView(c) ==
    IF c.s.currentView # Undefined /\ c.s.attached
    THEN viewAttach(c, c.s.currentView)
    ELSE c

\* activate(view, flags); bind is synchronous
activate(c, view, from) ==
    LET c1 == [c EXCEPT !.s.currentView = view]
    IN  IF view = Undefined THEN c1 ELSE attachView(bindView(c1, from))

\* onComposed()
onComposed(c) == [c EXCEPT !.s.composing = FALSE]

\* deactivate(flags)
deactivate_detachOnly(c, from) ==
    LET view == c.s.currentView
    IN  IF view = Undefined THEN [c |-> c, rest |-> <<>>]
        ELSE [c |-> viewDetach([c EXCEPT !.h.deactivated = view], view),
              rest |-> <<>>]
deactivate(c, from) ==
    LET view == c.s.currentView
    IN  IF view = Undefined THEN [c |-> c, rest |-> <<>>]
        ELSE viewUnbind(viewDetach([c EXCEPT !.h.deactivated = view], view),
                        view, from)

\* compose(subject, flags)
compose(c, subject, from) ==
    IF c.s.lastSubject = subject THEN [c |-> c, rest |-> <<>>]
    ELSE
      LET c1 == [c EXCEPT !.s.lastSubject = subject, !.s.composing = TRUE]
          d == deactivate(c1, from)
      IN  IF isSubjectPromise(subject)
          THEN [c |-> d.c,
                rest |-> d.rest \o <<Step("promise", subject, from),
                                     Step("onComposed", Undefined, from)>>]
          ELSE IF d.rest = <<>>
          THEN [c |-> onComposed(activate(d.c, resolveView(subject), from)),
                rest |-> <<>>]
          ELSE [c |-> d.c,
                rest |-> d.rest \o <<Step("activate", resolveView(subject), from),
                                     Step("onComposed", Undefined, from)>>]

\* the step at the head of the task can run
Runnable(s) ==
    /\ s.todo # <<>>
    /\ Head(s.todo).op = "promise" => Head(s.todo).arg \in s.resolved

\* what a step does when its turn comes
runStep(c, step) ==
    CASE step.op = "compose" -> compose(c, step.arg, step.from)
      [] step.op = "bindView" -> [c |-> bindView(c, step.from), rest |-> <<>>]
      [] step.op = "attachView" -> [c |-> attachView(c), rest |-> <<>>]
      [] step.op = "detach" -> [c |-> viewDetach(c, step.arg), rest |-> <<>>]
      [] step.op = "unbind" -> viewUnbind(c, step.arg, step.from)
      [] step.op = "activate" -> [c |-> activate(c, step.arg, step.from), rest |-> <<>>]
      [] step.op = "promise" ->
            [c |-> activate(c, resolveView(Resolution(step.arg)), step.from),
             rest |-> <<>>]
      [] step.op = "await" ->
            [c |-> [c EXCEPT !.s.views[step.arg].bound = FALSE,
                             !.s.views[step.arg].unbinding = FALSE],
             rest |-> <<>>]
      [] step.op = "onComposed" -> [c |-> onComposed(c), rest |-> <<>>]
      [] OTHER -> [c |-> c, rest |-> <<>>]

\* the task unbinding returned has completed: the controller clears its
\* isBoundOrBinding bits
unbound(c) ==
    [c EXCEPT !.s.ctl = "unbound", !.h.leftover = Active(c.s.views)]

\* the task handed back by unbinding completes when the steps before it have
settle(c) ==
    IF c.s.todo # <<>> /\ Head(c.s.todo).op = "returned"
    THEN unbound([c EXCEPT !.s.todo = Tail(@)])
    ELSE c

\* this.task = this.task.done ? <the call> : new ContinuationTask(this.task, ...)
chain(c, step) ==
    IF c.s.todo = <<>>
    THEN LET r == runStep(c, step) IN [r.c EXCEPT !.s.todo = r.rest]
    ELSE [c EXCEPT !.s.todo = Append(@, step)]

CpWorld == [s |-> cp, h |-> cpHist]

CpBecomes(c) == Len(c.s.todo) <= MaxTodo /\ cp' = c.s /\ cpHist' = c.h

\* binding(flags), the subject set by the binding of the bindable before
cp_binding(subject) ==
    /\ cp.ctl = "unbound"
    /\ LET c0 == CpWorld
           c1 == [c0 EXCEPT !.s.subject = subject, !.s.ctl = "bound",
                            !.h.requested = subject,
                            !.h.binds = [v \in Views |-> 0]]
           c2 == chain(c1, Step("compose", subject, "binding"))
       IN  CpBecomes(chain(c2, Step("bindView", Undefined, "binding")))

\* attaching(flags)
cp_attaching ==
    /\ cp.ctl = "bound" /\ ~cp.attached
    /\ LET c1 == [CpWorld EXCEPT !.s.attached = TRUE]
       IN  CpBecomes(chain(c1, Step("attachView", Undefined, "attaching")))

\* detaching(flags)
cp_detaching ==
    /\ cp.attached
    /\ LET c0 == CpWorld
           c1 == IF cp.currentView # Undefined
                 THEN chain(c0, Step("detach", cp.currentView, "detaching"))
                 ELSE c0
       IN  CpBecomes([c1 EXCEPT !.s.attached = FALSE])

\* unbinding(flags)
cp_unbinding ==
    /\ cp.ctl = "bound" /\ ~cp.attached
    /\ LET c0 == CpWorld
           c1 == [c0 EXCEPT !.s.ctl = "unbinding", !.s.lastSubject = Undefined]
           c2 == IF cp.currentView # Undefined
                 THEN chain(c1, Step("unbind", cp.currentView, "unbinding"))
                 ELSE c1
       IN  CpBecomes(IF c2.s.todo = <<>> THEN unbound(c2)
                     ELSE [c2 EXCEPT !.s.todo =
                              Append(@, Step("returned", Undefined, "unbinding"))])

\* subjectChanged(newValue, previousValue, flags)
cp_subjectChanged(newValue) ==
    /\ cp.ctl = "bound"
    /\ newValue # cp.subject
    /\ LET c0 == CpWorld
           c1 == [c0 EXCEPT !.s.subject = newValue, !.h.requested = newValue]
       IN  CpBecomes(chain(c1, Step("compose", newValue, "subjectChanged")))

\* a subject promise resolves
cp_resolve(promise) ==
    /\ promise \notin cp.resolved
    /\ cp' = [cp EXCEPT !.resolved = @ \cup {promise}]
    /\ UNCHANGED cpHist

\* the step at the head of the task runs (a continuation, a resolved
\* PromiseTask, the completion of a view's unbind)
cp_run ==
    /\ Runnable(cp)
    /\ LET c0 == CpWorld
           r == runStep(c0, Head(cp.todo))
       IN  CpBecomes(settle([r.c EXCEPT !.s.todo = r.rest \o Tail(cp.todo)]))

\* the state the constructor leaves, for views that unbind at once or later
CpInit ==
    /\ \E slow \in BOOLEAN :
          cp = [subject |-> Undefined, lastSubject |-> Undefined,
                currentView |-> Undefined, composing |-> FALSE,
                todo |-> <<>>, ctl |-> "unbound", attached |-> FALSE,
                views |-> [v \in Views |->
                              [bound |-> FALSE, attached |-> FALSE, unbinding |-> FALSE]],
                resolved |-> {}, slow |-> slow]
    /\ cpHist = [requested |-> Undefined, leftover |-> {},
                 binds |-> [v \in Views |-> 0], overlap |-> FALSE,
                 unbindFirst |-> FALSE, deactivated |-> Undefined]

\* Compose, unused
CpOff == cp = <<>> /\ cpHist = <<>>

-----------------------------------------------------------------------------
(* Properties of the Compose model *)

\* the view a subject resolves to, through its promise if it is one
ViewFor(subject) ==
    IF isSubjectPromise(subject) THEN resolveView(Resolution(subject))
    ELSE resolveView(subject)

\* every task has finished
CpIdle == cp.todo = <<>>

(* C24: once all the tasks of Compose have finished, the current view is   *)
(* the one resolved from the subject requested last (by binding or         *)
(* subjectChanged), the steps having run one at a time in the order of     *)
(* their requests.                                                         *)
C24_LatestSubjectComposed ==
    CpIdle => cp.currentView = ViewFor(cpHist.requested)

(* C25: when the task returned by unbinding has completed, no composed     *)
(* view is bound or attached.                                              *)
C25_NothingLeftAfterUnbinding == cpHist.leftover = {}

C27_BindOncePerBinding == \A v \in Views : cpHist.binds[v] <= 1

-----------------------------------------------------------------------------
(***************************************************************************)
(* ThrottleBindingBehavior: a binding interceptor that forwards            *)
(* handleChange and callSource to the binding it wraps, at once or through *)
(* a task of the platform's task queue.  A task of the queue runs at some  *)
(* time not before it is due, unless it was cancelled.                     *)
(***************************************************************************)

VARIABLES
    th,       \* the behavior, the clock, the task queue, the wrapped binding
    thHist    \* history: the last call forwarded, the task the last $unbind
              \* cancelled, the tasks that were pending through an $unbind,
              \* whether one of those was forwarded

thVars == <<th, thHist>>

MaxTime == 3
MaxDelay == 2

\* this.task = null
NoTask == [id |-> 0, due |-> 0, kind |-> "none", value |-> "none"]

\* what firstArg.evaluate(...) can give, after Number(...)
Delays == {<<"NaN", 0>>} \cup {<<"number", d>> : d \in 0..MaxDelay}

\* the callback reaches the wrapped binding
forward(t, call, value) == [t EXCEPT !.h.last = <<call, value>>]

\* queueTask(callback)
queueTask(t, call, value) ==
    LET nextDelay == t.s.lastCall + t.s.delay - t.s.now
        task == t.s.task
        new == [id |-> IF task.id = 1 THEN 2 ELSE 1, due |-> t.s.now + nextDelay,
                kind |-> call, value |-> value]
    IN  IF nextDelay > 0
        THEN [t EXCEPT !.s.delay = nextDelay,
                       !.s.task = new,
                       !.s.queue = (@ \cup {new}) \ {task}]
        ELSE forward([t EXCEPT !.s.lastCall = t.s.now], call, value)

ThWorld == [s |-> th, h |-> thHist]

ThBecomes(t) == th' = t.s /\ thHist' = t.h

\* $bind(flags, scope, hostScope)
th_bind(delay) ==
    /\ ~th.bound
    /\ LET t1 == IF th.firstArg /\ delay[1] # "NaN"
                 THEN [ThWorld EXCEPT !.s.delay = delay[2]]
                 ELSE ThWorld
       IN  ThBecomes([t1 EXCEPT !.s.bound = TRUE])

\* handleChange(newValue, previousValue, flags)
th_handleChange(newValue) ==
    /\ th.bound
    /\ ThBecomes(queueTask(ThWorld, "handleChange", newValue))

\* callSource(args)
th_callSource(callArgs) ==
    /\ th.bound
    /\ ThBecomes(queueTask(ThWorld, "callSource", callArgs))

\* the task queue runs a task that is due: the function queueTask gave it
th_taskRuns(task) ==
    /\ task \in th.queue
    /\ task.due <= th.now
    /\ LET t1 == [ThWorld EXCEPT !.s.queue = @ \ {task},
                                 !.s.lastCall = th.now,
                                 !.s.task = NoTask,
                                 !.h.late = @ \/ task \in thHist.stale,
                                 !.h.stale = @ \ {task}]
       IN  ThBecomes(forward(t1, task.kind, task.value))

\* $unbind(flags)
th_unbind_noCancel ==
    /\ th.bound
    /\ LET t1 == [ThWorld EXCEPT !.s.task = NoTask,
                                 !.s.bound = FALSE,
                                 !.h.dropped = NoTask]
       IN  ThBecomes([t1 EXCEPT !.h.stale = @ \cup t1.s.queue])
th_unbind ==
    /\ th.bound
    /\ LET t1 == [ThWorld EXCEPT !.s.queue = @ \ {th.task},
                                 !.s.task = NoTask,
                                 !.s.bound = FALSE,
                                 !.h.dropped = IF th.task \in th.queue
                                               THEN th.task ELSE NoTask]
       IN  ThBecomes([t1 EXCEPT !.h.stale = @ \cup t1.s.queue])

\* platform.performanceNow() moves on
th_tick ==
    /\ th.now < MaxTime
    /\ th' = [th EXCEPT !.now = @ + 1]
    /\ UNCHANGED thHist

\* the state the constructor leaves, with or without an argument of the
\* behavior
ThInit ==
    /\ \E firstArg \in BOOLEAN :
          th = [delay |-> 0, firstArg |-> firstArg, task |-> NoTask,
                lastCall |-> 0, now |-> 0, queue |-> {}, bound |-> FALSE]
    /\ thHist = [last |-> <<"none", "none">>, dropped |-> NoTask,
                 stale |-> {}, late |-> FALSE]

\* ThrottleBindingBehavior, unused
ThOff == th = <<>> /\ thHist = <<>>

(* C28: $unbind cancels the pending task and sets task to null when it     *)
(* unbinds the wrapped binding, so no task is pending while the binding is *)
(* unbound and no change queued before an $unbind is forwarded after it.   *)
C28_UnbindDropsQueuedChange ==
    /\ ~thHist.late
    /\ thHist.stale = {}
    /\ ~th.bound => th.task = NoTask /\ th.queue = {}

\* $unbind cancelled a queued change, and the time the change was due has
\* come without anything forwarded then
C28_Witness ==
    /\ ~th.bound
    /\ thHist.dropped # NoTask
    /\ thHist.dropped.kind = "handleChange"
    /\ th.now > thHist.dropped.due
    /\ th.lastCall < thHist.dropped.due

-----------------------------------------------------------------------------
(***************************************************************************)
(* CollectionLengthObserver.  A value is a number, a string or NaN, so     *)
(* that !== is the strict inequality of the language.                      *)
(***************************************************************************)

VARIABLES
    lo,       \* the observer, its collection and its subscribers
    loHist    \* history: the last call, the argument of the setValue call
              \* before it, the calls it made to the subscribers

loVars == <<lo, loHist>>

MaxLength == 2

LengthValues ==
    {<<"number", n>> : n \in 0..MaxLength} \cup {<<"string", 1>>, <<"NaN", 0>>}

LengthFlags == {none, updateTargetInstance, updateSourceExpression}

Subscribers == <<"s1", "s2">>

\* a === b
StrictEquals(a, b) == a = b /\ a[1] # "NaN"

\* getValue()
lo_getValue(o) == <<"number", o.length>>

\* callSubscribers(newValue, previousValue, flags): every subscriber, in
\* the order of the collection
callSubscribers(o, newValue, previousValue, flags) ==
    LET subscribed == SelectSeq(Subscribers, LAMBDA s : s \in o.subscribers)
    IN  [i \in 1..Len(subscribed) |->
            <<subscribed[i], newValue, previousValue, flags>>]

\* setValue(newValue, flags): the observer after it and the calls made
setValue_always(o, newValue, flags) ==
    LET currentValue == o.currentValue
    IN  [o |-> [o EXCEPT !.currentValue = newValue],
         calls |-> callSubscribers(o, newValue, currentValue,
                                   BitOr(flags, updateTargetInstance))]
setValue(o, newValue, flags) ==
    LET currentValue == o.currentValue
    IN  IF ~StrictEquals(newValue, currentValue)
        THEN [o |-> [o EXCEPT !.currentValue = newValue],
              calls |-> callSubscribers(o, newValue, currentValue,
                                        BitOr(flags, updateTargetInstance))]
        ELSE [o |-> o, calls |-> <<>>]

lo_setValue(newValue, flags) ==
    LET r == setValue(lo, newValue, flags)
    IN  /\ lo' = r.o
        /\ loHist' = [op |-> "setValue", newValue |-> newValue, flags |-> flags,
                      previous |-> loHist.newValue, calls |-> r.calls]

\* subscribe(subscriber)
lo_subscribe(s) ==
    /\ s \notin lo.subscribers
    /\ lo' = [lo EXCEPT !.subscribers = @ \cup {s}]
    /\ loHist' = [loHist EXCEPT !.op = "subscribe", !.calls = <<>>]

\* unsubscribe(subscriber)
lo_unsubscribe(s) ==
    /\ s \in lo.subscribers
    /\ lo' = [lo EXCEPT !.subscribers = @ \ {s}]
    /\ loHist' = [loHist EXCEPT !.op = "unsubscribe", !.calls = <<>>]

\* the collection grows or shrinks; nothing in this class hears of it
lo_lengthChanges(n) ==
    /\ n # lo.length
    /\ lo' = [lo EXCEPT !.length = n]
    /\ loHist' = [loHist EXCEPT !.op = "length", !.calls = <<>>]

\* new CollectionLengthObserver(obj)
LoInit ==
    /\ \E n \in 0..MaxLength :
          /\ lo = [length |-> n, currentValue |-> <<"number", n>>,
                   subscribers |-> {}]
          /\ loHist = [op |-> "constructor", newValue |-> <<"number", n>>,
                       flags |-> none, previous |-> <<"number", n>>,
                       calls |-> <<>>]

\* CollectionLengthObserver, unused
LoOff == lo = <<>> /\ loHist = <<>>

\* the subscribers at the time of the last call, in their order
LoSubscribed == SelectSeq(Subscribers, LAMBDA s : s \in lo.subscribers)

(* C29: setValue(v) calls every subscriber exactly once with (v, previous  *)
(* value, flags | updateTargetInstance) and stores v iff v is not strictly *)
(* equal to the value stored last (the argument of the setValue call       *)
(* before, at first the length at construction); otherwise it calls        *)
(* nobody and changes nothing.                                             *)
C29_NotifiesOnlyOnChange ==
    loHist.op = "setValue" =>
        /\ lo.currentValue = loHist.newValue
        /\ IF ~StrictEquals(loHist.newValue, loHist.previous)
           THEN loHist.calls =
                  [i \in 1..Len(LoSubscribed) |->
                      <<LoSubscribed[i], loHist.newValue, loHist.previous,
                        BitOr(loHist.flags, updateTargetInstance)>>]
           ELSE loHist.calls = <<>> /\ lo.currentValue = loHist.previous

\* the string "1" after the number 1: not strictly equal, both subscribers
\* called
C29_Witness ==
    /\ loHist.op = "setValue"
    /\ loHist.newValue = <<"string", 1>>
    /\ loHist.previous = <<"number", 1>>
    /\ loHist.flags = updateSourceExpression
    /\ Len(loHist.calls) = 2
    /\ lo.length # 1

-----------------------------------------------------------------------------
(* The specifications: one per component, the other components unused *)

allVars == <<vars, tbVars, rsVars, raVars, lgVars, cpVars, thVars, loVars>>

pbOthers == <<tbVars, rsVars, raVars, lgVars, cpVars, thVars, loVars>>
tbOthers == <<vars, rsVars, raVars, lgVars, cpVars, thVars, loVars>>
rsOthers == <<vars, tbVars, raVars, lgVars, cpVars, thVars, loVars>>
raOthers == <<vars, tbVars, rsVars, lgVars, cpVars, thVars, loVars>>
lgOthers == <<vars, tbVars, rsVars, raVars, cpVars, thVars, loVars>>
cpOthers == <<vars, tbVars, rsVars, raVars, lgVars, thVars, loVars>>
thOthers == <<vars, tbVars, rsVars, raVars, lgVars, cpVars, loVars>>
loOthers == <<vars, tbVars, rsVars, raVars, lgVars, cpVars, thVars>>

\* the PropertyBinding, unused
PbOff ==
    /\ binding = <<>> /\ ctx = <<>> /\ target = <<>> /\ pc = <<>>
    /\ args = <<>> /\ ret = <<>> /\ hist = <<>>

Next ==
    \/ bind_enter /\ UNCHANGED pbOthers
    \/ bind_setup /\ UNCHANGED pbOthers
    \/ bind_updateTarget /\ UNCHANGED pbOthers
    \/ bind_connect /\ UNCHANGED pbOthers
    \/ bind_subscribe /\ UNCHANGED pbOthers
    \/ bind_done /\ UNCHANGED pbOthers
    \/ unbind_enter /\ UNCHANGED pbOthers
    \/ unbind_scope /\ UNCHANGED pbOthers
    \/ unbind_unobserve /\ UNCHANGED pbOthers
    \/ unbind_done /\ UNCHANGED pbOthers
    \/ (\E newValue \in Values, flags \in ChangeFlags :
           handleChange_call(newValue, flags)) /\ UNCHANGED pbOthers
    \/ (\E s \in Scopes, p \in Props, v \in Values :
           sourceChanged(s, p, v)) /\ UNCHANGED pbOthers
    \/ (\E v \in Values : targetChanged(v)) /\ UNCHANGED pbOthers
    \/ (\E newValue \in Values, flags \in ChangeFlags :
           handleChange_duringBind(newValue, flags)) /\ UNCHANGED pbOthers

TbNext ==
    \/ (\E scope \in Scopes : tb_bind(scope)) /\ UNCHANGED tbOthers
    \/ tb_unbind /\ UNCHANGED tbOthers
    \/ (\E s \in Scopes, p \in TbProps, v \in Values :
           tb_sourceChanged(s, p, v)) /\ UNCHANGED tbOthers
    \/ (\E l \in Locales : tb_localeChanged(l)) /\ UNCHANGED tbOthers

RsNext ==
    \/ runSequence /\ UNCHANGED rsOthers
    \/ promiseResolves /\ UNCHANGED rsOthers
    \/ promiseRejects /\ UNCHANGED rsOthers

RaNext ==
    \/ resolveAll_call /\ UNCHANGED raOthers

LgNext ==
    \/ (\E l \in 1..Len(lg.loggers), level \in MethodLevels, isFunction \in BOOLEAN :
           logger_log(l, level, isFunction)) /\ UNCHANGED lgOthers
    \/ (\E level \in LogLevels : setLevel(level)) /\ UNCHANGED lgOthers

ScopeNext ==
    \/ (\E l \in 1..Len(lg.loggers), name \in ScopeNames :
           scopeTo(l, name)) /\ UNCHANGED lgOthers

CpNext ==
    \/ (\E subject \in Subjects : cp_binding(subject)) /\ UNCHANGED cpOthers
    \/ cp_attaching /\ UNCHANGED cpOthers
    \/ cp_detaching /\ UNCHANGED cpOthers
    \/ cp_unbinding /\ UNCHANGED cpOthers
    \/ (\E newValue \in Subjects : cp_subjectChanged(newValue)) /\ UNCHANGED cpOthers
    \/ (\E promise \in Promises : cp_resolve(promise)) /\ UNCHANGED cpOthers
    \/ cp_run /\ UNCHANGED cpOthers

ThNext ==
    \/ (\E delay \in Delays : th_bind(delay)) /\ UNCHANGED thOthers
    \/ (\E newValue \in Values : th_handleChange(newValue)) /\ UNCHANGED thOthers
    \/ (\E callArgs \in Values : th_callSource(callArgs)) /\ UNCHANGED thOthers
    \/ (\E task \in th.queue : th_taskRuns(task)) /\ UNCHANGED thOthers
    \/ th_unbind /\ UNCHANGED thOthers
    \/ th_tick /\ UNCHANGED thOthers

LoNext ==
    \/ (\E newValue \in LengthValues, flags \in LengthFlags :
            lo_setValue(newValue, flags)) /\ UNCHANGED loOthers
    \/ (\E s \in {"s1", "s2"} : lo_subscribe(s)) /\ UNCHANGED loOthers
    \/ (\E s \in {"s1", "s2"} : lo_unsubscribe(s)) /\ UNCHANGED loOthers
    \/ (\E n \in 0..MaxLength : lo_lengthChanges(n)) /\ UNCHANGED loOthers

\* PropertyBinding
InitPB == Init /\ TbOff /\ RsOff /\ RaOff /\ LgOff /\ CpOff /\ ThOff /\ LoOff
Spec == InitPB /\ [][Next]_allVars

\* TranslationBinding
InitTB == TbInit /\ PbOff /\ RsOff /\ RaOff /\ LgOff /\ CpOff /\ ThOff /\ LoOff
SpecTB == InitTB /\ [][TbNext]_allVars

\* runSequence
InitRS == RsInit /\ PbOff /\ TbOff /\ RaOff /\ LgOff /\ CpOff /\ ThOff /\ LoOff
SpecRS == InitRS /\ [][RsNext]_allVars

\* resolveAll
InitRA == RaInit /\ PbOff /\ TbOff /\ RsOff /\ LgOff /\ CpOff /\ ThOff /\ LoOff
SpecRA == InitRA /\ [][RaNext]_allVars

\* DefaultLogger: the log methods of a root logger and a scoped logger
InitLG == LgInitWith(ScopedLogger) /\ PbOff /\ TbOff /\ RsOff /\ RaOff /\ CpOff /\ ThOff /\ LoOff
SpecLG == InitLG /\ [][LgNext]_allVars

\* DefaultLogger: scopeTo from the root logger on
InitScope == LgInitWith(RootLogger) /\ PbOff /\ TbOff /\ RsOff /\ RaOff /\ CpOff /\ ThOff /\ LoOff
SpecScope == InitScope /\ [][ScopeNext]_allVars

\* Compose
InitCP == CpInit /\ PbOff /\ TbOff /\ RsOff /\ RaOff
              /\ LgOff /\ ThOff /\ LoOff
SpecCP == InitCP /\ [][CpNext]_allVars

\* ThrottleBindingBehavior
InitTH == ThInit /\ PbOff /\ TbOff /\ RsOff /\ RaOff /\ LgOff /\ CpOff /\ LoOff
SpecTH == InitTH /\ [][ThNext]_allVars

\* CollectionLengthObserver
InitLO == LoInit /\ PbOff /\ TbOff /\ RsOff /\ RaOff /\ LgOff /\ CpOff /\ ThOff
SpecLO == InitLO /\ [][LoNext]_allVars

====
